---- MODULE Spec2Model ----
(***************************************************************************)
(* Model of main/main.c of the ESP32 LVGL SSD1306 demo: app_main spawns    *)
(* guiTask, which creates the GUI mutex, initialises LVGL and the display  *)
(* / input drivers, starts the periodic tick timer, builds the screen and  *)
(* then loops: vTaskDelay, xSemaphoreTake, lv_task_handler, xSemaphoreGive.*)
(* lv_tick_task is the esp_timer callback.  Other tasks that touch LVGL    *)
(* follow the documented discipline on xGuiSemaphore (main.c:67-70).       *)
(***************************************************************************)
EXTENDS Integers, Sequences, FiniteSets, TLC

VARIABLES
    cfg,            \* build configuration (the CONFIG_* macros of main.c)
    pc,             \* program position of app_main / guiTask
    xGuiSemaphore,  \* the global handle: "NULL" or "mutex"
    semCount,       \* uxMessagesWaiting of the mutex: 1 free, 0 taken
    holds,          \* holds[t]: task t is between its take and its give
    mpc,            \* program position of every external mutator task
    disp_buf,       \* static lv_disp_buf_t disp_buf
    disp_drv,       \* lv_disp_drv_t disp_drv
    disp,           \* the display lv_disp_drv_register created, if any
    indev,          \* read callback registered by lv_indev_drv_register
    timer,          \* periodic_timer: "none", "created", "running"
    clock,          \* LVGL's logical clock (advanced by lv_tick_inc)
    fires,          \* number of lv_tick_task invocations so far
    gui,            \* LVGL state: library initialised, widgets, pending redraw
    failed,         \* startup calls that reported failure
    markers,        \* startup steps completed by guiTask, in order
    mutLog,         \* GUI-state mutations: who, what, lock held or not
    handlerCalls,   \* lv_task_handler calls since guiTask's last take
    slept,          \* guiTask has slept since its last give
    readToggle,     \* flips on every invocation of the input read callback
    clockAtTake     \* value of the clock at the most recent take

vars == <<cfg, pc, xGuiSemaphore, semCount, holds, mpc, disp_buf, disp_drv,
          disp, indev, timer, clock, fires, gui, failed, markers, mutLog,
          handlerCalls, slept, readToggle, clockAtTake>>

----------------------------------------------------------------------------
(* Bounds *)
NumMutators == 2
MaxTicks == 3

(* Program constants *)
LV_TICK_PERIOD_MS == 1
Gui == 0

Mutators == 1..NumMutators
Tasks == {Gui} \cup Mutators

(* Build configurations: monochrome display or not, touch controller or   *)
(* none, e-paper controller (IL3820, JD79653A, UC8151D) or not.  The       *)
(* e-paper controllers are monochrome displays.                            *)
Configs ==
    {c \in [monochrome : BOOLEAN, touch : BOOLEAN, epaper : BOOLEAN] :
        c.epaper => c.monochrome}


----------------------------------------------------------------------------
(* The statements of guiTask before the loop, in program order.           *)
StartupOrder ==
    <<"create_mutex", "lv_init", "driver_init", "disp_buf_init",
      "disp_drv_init", "disp_drv_register", "indev_register",
      "timer_create", "timer_start", "create_app">>

LoopPcs == {"delay", "take", "handler", "give"}

IndexOf(p, seq) == CHOOSE i \in 1..Len(seq) : seq[i] = p

(* The input registration block is compiled only when a touch controller  *)
(* is configured (#if CONFIG_LV_TOUCH_CONTROLLER != TOUCH_CONTROLLER_NONE) *)
Compiled(c) ==
    SelectSeq(StartupOrder, LAMBDA p : p # "indev_register" \/ c.touch)

(* A variant of the program order in which the timer is created and       *)
(* started right after lv_init, before the display and input drivers.     *)
NextPc_TimerEarly(p, c) ==
    LET early == <<"create_mutex", "lv_init", "timer_create", "timer_start",
                   "driver_init", "disp_buf_init", "disp_drv_init",
                   "disp_drv_register", "indev_register", "create_app">>
        order == SelectSeq(early, LAMBDA q : q # "indev_register" \/ c.touch)
        i == IndexOf(p, order)
    IN  IF i = Len(order) THEN "delay" ELSE order[i + 1]

(* The statement guiTask executes after startup statement p.              *)
NextPc(p, c) ==
    LET order == Compiled(c)
        i == IndexOf(p, order)
    IN  IF i = Len(order) THEN "delay" ELSE order[i + 1]

NullDrv ==
    [flush_cb |-> "NULL", rounder_cb |-> "NULL", set_px_cb |-> "NULL",
     buffer |-> "NULL"]

NullBuf == [buf1 |-> "NULL", buf2 |-> "NULL", size |-> 0]

NullDisp == [registered |-> FALSE, drv |-> NullDrv, buf |-> NullBuf]

(* A GUI-state mutation by task t, recorded with whether t holds the lock *)
Logged(t, op) == mutLog \cup {[task |-> t, op |-> op, locked |-> holds[t]]}

----------------------------------------------------------------------------
Init ==
    /\ cfg \in Configs
    /\ pc = "app_main"
    /\ xGuiSemaphore = "NULL"
    /\ semCount = 0
    /\ holds = [t \in Tasks |-> FALSE]
    /\ mpc = [m \in Mutators |-> "idle"]
    /\ disp_buf = NullBuf
    /\ disp_drv = NullDrv
    /\ disp = NullDisp
    /\ indev = "NULL"
    /\ timer = "none"
    /\ clock = 0
    /\ fires = 0
    /\ gui = [inited |-> FALSE, objs |-> {}, dirty |-> FALSE]
    /\ failed = {}
    /\ markers = <<>>
    /\ mutLog = {}
    /\ handlerCalls = 0
    /\ slept = FALSE
    /\ readToggle = FALSE
    /\ clockAtTake = 0

(* app_main: xTaskCreatePinnedToCore(guiTask, ...); the result is not     *)
(* looked at, and when the task cannot be created guiTask never runs.     *)
AppMain ==
    /\ pc = "app_main"
    /\ \E ok \in BOOLEAN :
          pc' = IF ok THEN "create_mutex" ELSE "no_task"
    /\ UNCHANGED <<cfg, xGuiSemaphore, semCount, holds, mpc, disp_buf,
                   disp_drv, disp, indev, timer, clock, fires, gui, failed,
                   markers, mutLog, handlerCalls, slept, readToggle,
                   clockAtTake>>

(* xGuiSemaphore = xSemaphoreCreateMutex(): NULL when the heap is          *)
(* exhausted; the result is not checked.                                  *)
GuiCreateMutex ==
    /\ pc = "create_mutex"
    /\ \E ok \in BOOLEAN :
          /\ xGuiSemaphore' = IF ok THEN "mutex" ELSE "NULL"
          /\ semCount' = IF ok THEN 1 ELSE 0
          /\ failed' = IF ok THEN failed ELSE failed \cup {"create_mutex"}
    /\ markers' = Append(markers, "create_mutex")
    /\ pc' = NextPc(pc, cfg)
    /\ UNCHANGED <<cfg, holds, mpc, disp_buf, disp_drv, disp, indev, timer,
                   clock, fires, gui, mutLog, handlerCalls, slept,
                   readToggle, clockAtTake>>

(* lv_init() *)
GuiLvInit ==
    /\ pc = "lv_init"
    /\ gui' = [gui EXCEPT !.inited = TRUE]
    /\ mutLog' = Logged(Gui, "lv_init")
    /\ markers' = Append(markers, "lv_init")
    /\ pc' = NextPc(pc, cfg)
    /\ UNCHANGED <<cfg, xGuiSemaphore, semCount, holds, mpc, disp_buf,
                   disp_drv, disp, indev, timer, clock, fires, failed,
                   handlerCalls, slept, readToggle, clockAtTake>>

(* lvgl_driver_init(): SPI / I2C bus set-up, returns nothing *)
GuiDriverInit ==
    /\ pc = "driver_init"
    /\ markers' = Append(markers, "driver_init")
    /\ pc' = NextPc(pc, cfg)
    /\ UNCHANGED <<cfg, xGuiSemaphore, semCount, holds, mpc, disp_buf,
                   disp_drv, disp, indev, timer, clock, fires, gui, failed,
                   mutLog, handlerCalls, slept, readToggle, clockAtTake>>

(* buf2 is a second static array, or a NULL pointer on monochrome         *)
Buf2(c) == IF c.monochrome THEN "NULL" ELSE "buf2"

(* size_in_px, in units of DISP_BUF_SIZE: times 8 on the e-paper          *)
(* controllers                                                            *)
SizeInPx(c) == IF c.epaper THEN 8 ELSE 1

(* static buffers and lv_disp_buf_init(&disp_buf, buf1, buf2, size_in_px) *)
GuiDispBufInit ==
    /\ pc = "disp_buf_init"
    /\ disp_buf' = [buf1 |-> "buf1", buf2 |-> Buf2(cfg),
                    size |-> SizeInPx(cfg)]
    /\ mutLog' = Logged(Gui, "disp_buf_init")
    /\ markers' = Append(markers, "disp_buf_init")
    /\ pc' = NextPc(pc, cfg)
    /\ UNCHANGED <<cfg, xGuiSemaphore, semCount, holds, mpc, disp_drv, disp,
                   indev, timer, clock, fires, gui, failed, handlerCalls,
                   slept, readToggle, clockAtTake>>

(* The callbacks of a driver that wires the rounder and set_px callbacks  *)
(* on colour displays instead of monochrome ones.                         *)
DrvCallbacks_Swapped(c) ==
    [flush_cb |-> "disp_driver_flush",
     rounder_cb |-> IF c.monochrome THEN "NULL" ELSE "disp_driver_rounder",
     set_px_cb |-> IF c.monochrome THEN "NULL" ELSE "disp_driver_set_px",
     buffer |-> "disp_buf"]

(* lv_disp_drv_init clears the driver; flush_cb is always set, rounder_cb *)
(* and set_px_cb only under CONFIG_LV_TFT_DISPLAY_MONOCHROME.             *)
DrvCallbacks(c) ==
    [flush_cb |-> "disp_driver_flush",
     rounder_cb |-> IF c.monochrome THEN "disp_driver_rounder" ELSE "NULL",
     set_px_cb |-> IF c.monochrome THEN "disp_driver_set_px" ELSE "NULL",
     buffer |-> "disp_buf"]

GuiDispDrvInit ==
    /\ pc = "disp_drv_init"
    /\ disp_drv' = DrvCallbacks(cfg)
    /\ markers' = Append(markers, "disp_drv_init")
    /\ pc' = NextPc(pc, cfg)
    /\ UNCHANGED <<cfg, xGuiSemaphore, semCount, holds, mpc, disp_buf, disp,
                   indev, timer, clock, fires, gui, failed, mutLog,
                   handlerCalls, slept, readToggle, clockAtTake>>

(* lv_disp_drv_register(&disp_drv): copies the driver into a new display, *)
(* or returns NULL; the result is not checked.                            *)
GuiDispDrvRegister ==
    /\ pc = "disp_drv_register"
    /\ \E ok \in BOOLEAN :
          /\ disp' = IF ok
                     THEN [registered |-> TRUE, drv |-> disp_drv,
                           buf |-> disp_buf]
                     ELSE NullDisp
          /\ failed' = IF ok THEN failed
                       ELSE failed \cup {"disp_drv_register"}
    /\ mutLog' = Logged(Gui, "disp_drv_register")
    /\ markers' = Append(markers, "disp_drv_register")
    /\ pc' = NextPc(pc, cfg)
    /\ UNCHANGED <<cfg, xGuiSemaphore, semCount, holds, mpc, disp_buf,
                   disp_drv, indev, timer, clock, fires, gui, handlerCalls,
                   slept, readToggle, clockAtTake>>

(* lv_indev_drv_init, read_cb = touch_driver_read, lv_indev_drv_register: *)
(* the result is not checked.                                             *)
GuiIndevRegister ==
    /\ pc = "indev_register"
    /\ \E ok \in BOOLEAN :
          /\ indev' = IF ok THEN "touch_driver_read" ELSE "NULL"
          /\ failed' = IF ok THEN failed
                       ELSE failed \cup {"indev_register"}
    /\ mutLog' = Logged(Gui, "indev_register")
    /\ markers' = Append(markers, "indev_register")
    /\ pc' = NextPc(pc, cfg)
    /\ UNCHANGED <<cfg, xGuiSemaphore, semCount, holds, mpc, disp_buf,
                   disp_drv, disp, timer, clock, fires, gui, handlerCalls,
                   slept, readToggle, clockAtTake>>

(* ESP_ERROR_CHECK(esp_timer_create(...)): abort() on an error code       *)
GuiTimerCreate ==
    /\ pc = "timer_create"
    /\ \E ok \in BOOLEAN :
          /\ timer' = IF ok THEN "created" ELSE timer
          /\ failed' = IF ok THEN failed ELSE failed \cup {"timer_create"}
          /\ markers' = IF ok THEN Append(markers, "timer_create")
                        ELSE markers
          /\ pc' = IF ok THEN NextPc(pc, cfg) ELSE "halted"
    /\ UNCHANGED <<cfg, xGuiSemaphore, semCount, holds, mpc, disp_buf,
                   disp_drv, disp, indev, clock, fires, gui, mutLog,
                   handlerCalls, slept, readToggle, clockAtTake>>

(* ESP_ERROR_CHECK(esp_timer_start_periodic(periodic_timer, 1000 us))     *)
GuiTimerStart ==
    /\ pc = "timer_start"
    /\ \E ok \in BOOLEAN :
          /\ timer' = IF ok /\ timer = "created" THEN "running" ELSE timer
          /\ failed' = IF ok THEN failed ELSE failed \cup {"timer_start"}
          /\ markers' = IF ok THEN Append(markers, "timer_start")
                        ELSE markers
          /\ pc' = IF ok THEN NextPc(pc, cfg) ELSE "halted"
    /\ UNCHANGED <<cfg, xGuiSemaphore, semCount, holds, mpc, disp_buf,
                   disp_drv, disp, indev, clock, fires, gui, mutLog,
                   handlerCalls, slept, readToggle, clockAtTake>>


(* The screen and the eight widgets create_demo_application creates.      *)
DemoObjects ==
    {"scr", "persian_label", "settings_icon_label", "battery_icon_label",
     "bell_icon_label", "wifi_icon_label", "label2", "led1", "led2"}

(* create_demo_application(): without a registered display             *)
(* lv_obj_create(NULL, NULL) returns NULL and lv_scr_load(NULL) stops the  *)
(* task (LVGL assertion or load fault).                                   *)
GuiCreateDemoApp ==
    /\ pc = "create_app"
    /\ IF disp.registered
       THEN /\ gui' = [gui EXCEPT !.objs = DemoObjects, !.dirty = TRUE]
            /\ mutLog' = Logged(Gui, "create_demo_application")
            /\ markers' = Append(markers, "create_app")
            /\ pc' = NextPc(pc, cfg)
       ELSE /\ pc' = "abort"
            /\ UNCHANGED <<gui, mutLog, markers>>
    /\ UNCHANGED <<cfg, xGuiSemaphore, semCount, holds, mpc, disp_buf,
                   disp_drv, disp, indev, timer, clock, fires, failed,
                   handlerCalls, slept, readToggle, clockAtTake>>

----------------------------------------------------------------------------
(* The mutex behind xGuiSemaphore (FreeRTOS queue of length 1).           *)

(* A take that succeeds whether or not the mutex is free.                 *)
SemCanTake_NoCheck == xGuiSemaphore = "mutex"

(* xSemaphoreTake(xGuiSemaphore, portMAX_DELAY) returns pdTRUE only when  *)
(* the mutex is free; until then the caller stays blocked.                *)
SemCanTake == xGuiSemaphore = "mutex" /\ semCount = 1

SemTake(t) ==
    /\ SemCanTake
    /\ semCount' = 0
    /\ holds' = [holds EXCEPT ![t] = TRUE]
    /\ clockAtTake' = clock

(* A give that leaves the mutex taken.                                    *)
SemGive_Lost(t) ==
    /\ semCount' = semCount
    /\ holds' = [holds EXCEPT ![t] = FALSE]

(* xSemaphoreGive(xGuiSemaphore) *)
SemGive(t) ==
    /\ semCount' = 1
    /\ holds' = [holds EXCEPT ![t] = FALSE]

----------------------------------------------------------------------------
(* The loop of guiTask.                                                   *)

(* vTaskDelay(pdMS_TO_TICKS(10)) *)
GuiDelay ==
    /\ pc = "delay"
    /\ slept' = TRUE
    /\ pc' = "take"
    /\ UNCHANGED <<cfg, xGuiSemaphore, semCount, holds, mpc, disp_buf,
                   disp_drv, disp, indev, timer, clock, fires, gui, failed,
                   markers, mutLog, handlerCalls, readToggle, clockAtTake>>

(* A loop that goes on to lv_task_handler without the mutex (the result   *)
(* of the take ignored, or a take that does not wait).                    *)
GuiTake_Ignored ==
    /\ pc = "take"
    /\ handlerCalls' = 0
    /\ pc' = "handler"
    /\ UNCHANGED <<cfg, xGuiSemaphore, semCount, holds, mpc, disp_buf,
                   disp_drv, disp, indev, timer, clock, fires, gui, failed,
                   markers, mutLog, slept, readToggle, clockAtTake>>

(* if (pdTRUE == xSemaphoreTake(xGuiSemaphore, portMAX_DELAY)): blocks    *)
(* until the mutex is free.  On a NULL handle FreeRTOS asserts (or faults *)
(* on the load through it) and the task stops.                            *)
GuiTake ==
    /\ pc = "take"
    /\ IF xGuiSemaphore = "NULL"
       THEN /\ pc' = "abort"
            /\ UNCHANGED <<semCount, holds, clockAtTake, handlerCalls>>
       ELSE /\ SemTake(Gui)
            /\ handlerCalls' = 0
            /\ pc' = "handler"
    /\ UNCHANGED <<cfg, xGuiSemaphore, mpc, disp_buf, disp_drv, disp, indev,
                   timer, clock, fires, gui, failed, markers, mutLog, slept,
                   readToggle>>

(* lv_task_handler(): polls the registered input device through its       *)
(* read_cb and redraws (flushes) what is pending.                         *)
GuiTaskHandler ==
    /\ pc = "handler"
    /\ readToggle' = IF indev = "NULL" THEN readToggle ELSE ~readToggle
    /\ gui' = [gui EXCEPT !.dirty = FALSE]
    /\ mutLog' = Logged(Gui, "lv_task_handler")
    /\ handlerCalls' = handlerCalls + 1
    /\ pc' = "give"
    /\ UNCHANGED <<cfg, xGuiSemaphore, semCount, holds, mpc, disp_buf,
                   disp_drv, disp, indev, timer, clock, fires, failed,
                   markers, slept, clockAtTake>>

(* A loop whose delay sits outside while (1): after the give the task    *)
(* goes straight back to the take.                                        *)
GuiGive_NoDelay ==
    /\ pc = "give"
    /\ SemGive(Gui)
    /\ slept' = FALSE
    /\ pc' = "take"
    /\ UNCHANGED <<cfg, xGuiSemaphore, mpc, disp_buf, disp_drv, disp, indev,
                   timer, clock, fires, gui, failed, markers, mutLog,
                   handlerCalls, readToggle, clockAtTake>>

(* xSemaphoreGive(xGuiSemaphore), then back to the top of while (1)       *)
GuiGive ==
    /\ pc = "give"
    /\ SemGive(Gui)
    /\ slept' = FALSE
    /\ pc' = "delay"
    /\ UNCHANGED <<cfg, xGuiSemaphore, mpc, disp_buf, disp_drv, disp, indev,
                   timer, clock, fires, gui, failed, markers, mutLog,
                   handlerCalls, readToggle, clockAtTake>>

----------------------------------------------------------------------------
(* The tick timer callback.                                               *)

(* lv_tick_inc called with the timer period in microseconds.              *)
TickInc_Micros(c) == c + LV_TICK_PERIOD_MS * 1000

(* lv_tick_inc(LV_TICK_PERIOD_MS): adds the period to LVGL's millisecond  *)
(* counter (an uint32_t, whose wrap after 2^32 ms lies beyond MaxTicks).  *)
TickInc(c) == c + LV_TICK_PERIOD_MS

(* A callback that wraps lv_tick_inc in the GUI mutex and so runs only    *)
(* while the mutex is free.                                               *)
lv_tick_task_Locked ==
    /\ timer = "running"
    /\ fires < MaxTicks
    /\ SemCanTake
    /\ clock' = TickInc(clock)
    /\ fires' = fires + 1
    /\ UNCHANGED <<cfg, pc, xGuiSemaphore, semCount, holds, mpc, disp_buf,
                   disp_drv, disp, indev, timer, gui, failed, markers,
                   mutLog, handlerCalls, slept, readToggle, clockAtTake>>

(* static void lv_tick_task(void *arg): fired by the periodic esp_timer   *)
lv_tick_task ==
    /\ timer = "running"
    /\ fires < MaxTicks
    /\ clock' = TickInc(clock)
    /\ fires' = fires + 1
    /\ UNCHANGED <<cfg, pc, xGuiSemaphore, semCount, holds, mpc, disp_buf,
                   disp_drv, disp, indev, timer, gui, failed, markers,
                   mutLog, handlerCalls, slept, readToggle, clockAtTake>>

----------------------------------------------------------------------------
(* Other tasks that call LVGL: take xGuiSemaphore, call, give.            *)
MutTake(m) ==
    /\ mpc[m] = "idle"
    /\ SemTake(m)
    /\ mpc' = [mpc EXCEPT ![m] = "locked"]
    /\ UNCHANGED <<cfg, pc, xGuiSemaphore, disp_buf, disp_drv, disp, indev,
                   timer, clock, fires, gui, failed, markers, mutLog,
                   handlerCalls, slept, readToggle>>

MutMutate(m) ==
    /\ mpc[m] = "locked"
    /\ gui' = [gui EXCEPT !.dirty = TRUE]
    /\ mutLog' = Logged(m, "mutate")
    /\ mpc' = [mpc EXCEPT ![m] = "mutated"]
    /\ UNCHANGED <<cfg, pc, xGuiSemaphore, semCount, holds, disp_buf,
                   disp_drv, disp, indev, timer, clock, fires, failed,
                   markers, handlerCalls, slept, readToggle, clockAtTake>>

MutGive(m) ==
    /\ mpc[m] = "mutated"
    /\ SemGive(m)
    /\ mpc' = [mpc EXCEPT ![m] = "idle"]
    /\ UNCHANGED <<cfg, pc, xGuiSemaphore, disp_buf, disp_drv, disp, indev,
                   timer, clock, fires, gui, failed, markers, mutLog,
                   handlerCalls, slept, readToggle, clockAtTake>>

----------------------------------------------------------------------------
GuiStartup ==
    \/ GuiCreateMutex
    \/ GuiLvInit
    \/ GuiDriverInit
    \/ GuiDispBufInit
    \/ GuiDispDrvInit
    \/ GuiDispDrvRegister
    \/ GuiIndevRegister
    \/ GuiTimerCreate
    \/ GuiTimerStart
    \/ GuiCreateDemoApp

GuiLoop ==
    \/ GuiDelay
    \/ GuiTake
    \/ GuiTaskHandler
    \/ GuiGive

Next ==
    \/ AppMain
    \/ GuiStartup
    \/ GuiLoop
    \/ lv_tick_task
    \/ \E m \in Mutators : MutTake(m)
    \/ \E m \in Mutators : MutMutate(m)
    \/ \E m \in Mutators : MutGive(m)

Spec == Init /\ [][Next]_vars


(* The scheduler runs guiTask whenever it can make a step, and every      *)
(* other holder of the mutex finishes its unit of work and gives.         *)
FairSpec ==
    /\ Spec
    /\ WF_vars(GuiStartup)
    /\ WF_vars(GuiLoop)
    /\ \A m \in Mutators : WF_vars(MutMutate(m) \/ MutGive(m))

----------------------------------------------------------------------------
(* Properties *)

Done(step) == \E i \in 1..Len(markers) : markers[i] = step

Pos(step) == CHOOSE i \in 1..Len(markers) : markers[i] = step

Before(a, b) == Done(b) => (Done(a) /\ Pos(a) < Pos(b))

Holders == {t \in Tasks : holds[t]}

(* C1: at most one task (guiTask or a mutator following the take/give     *)
(* discipline) holds the GUI lock in any reachable state.                 *)
C1_MutualExclusion == Cardinality(Holders) <= 1

(* guiTask holds the lock after a mutator has held it and mutated, while  *)
(* another mutator is idle and could ask for it.                          *)
C1_Witness ==
    /\ holds[Gui]
    /\ \E e \in mutLog : e.task \in Mutators
    /\ \E m \in Mutators : mpc[m] = "idle"

(* C2: every GUI-state mutation, by guiTask from library initialisation   *)
(* and widget construction to every lv_task_handler call, and by any      *)
(* other task, is made by a task holding xGuiSemaphore at that moment.    *)
C2_MutationsUnderLock == \A e \in mutLog : e.locked

(* C3: the logical clock equals the number of lv_tick_task firings times  *)
(* LV_TICK_PERIOD_MS; it never decreases, changes only in a firing of     *)
(* lv_tick_task, and each firing adds exactly one period.                 *)
C3_ClockIsFiringsTimesPeriod ==
    /\ [](clock = fires * LV_TICK_PERIOD_MS)
    /\ [][/\ clock' >= clock
          /\ clock' # clock => (fires' = fires + 1 /\ pc' = pc)
          /\ fires' # fires =>
                (fires' = fires + 1 /\ clock' = clock + LV_TICK_PERIOD_MS)
         ]_vars

(* Two firings have interleaved with the render loop, which is in its     *)
(* work-processing call.                                                  *)
C3_Witness == fires = 2 /\ clock = 2 * LV_TICK_PERIOD_MS /\ pc = "give"

(* C4: the startup steps of guiTask complete in the order lock creation,  *)
(* lv_init, driver bus init, display buffer and driver registration,      *)
(* input registration (when configured), timer create and start, widget   *)
(* construction, loop.  The tick timer runs (and a tick fires) only after *)
(* display and input registration, and the loop runs only with the timer  *)
(* started.                                                               *)
C4_StartupOrdered ==
    /\ Before("create_mutex", "lv_init")
    /\ Before("lv_init", "driver_init")
    /\ Before("driver_init", "disp_buf_init")
    /\ Before("disp_buf_init", "disp_drv_init")
    /\ Before("disp_drv_init", "disp_drv_register")
    /\ Before("disp_drv_register", "timer_create")
    /\ cfg.touch => Before("indev_register", "timer_create")
    /\ Before("disp_drv_register", "indev_register")
    /\ Before("timer_create", "timer_start")
    /\ Before("timer_start", "create_app")
    /\ ~cfg.touch => ~Done("indev_register")
    /\ (timer # "none" \/ fires > 0) =>
          /\ Done("disp_drv_register")
          /\ cfg.touch => Done("indev_register")
    /\ fires > 0 => timer = "running"
    /\ pc \in LoopPcs => (timer = "running" /\ Done("create_app"))
    /\ Cardinality({markers[i] : i \in 1..Len(markers)}) = Len(markers)

(* The loop is in its first work-processing call, with an input device    *)
(* configured and a tick already fired.                                   *)
C4_Witness ==
    /\ pc = "handler"
    /\ cfg.touch
    /\ fires > 0
    /\ Len(markers) = 10

(* C5: a startup step that fails is fatal: guiTask executes no later      *)
(* startup step and never enters the loop.                                *)
C5_FailureIsFatal ==
    failed # {} =>
        /\ pc \notin LoopPcs
        /\ \A f \in failed : Done(f) => markers[Len(markers)] = f

(* C6: lv_tick_task neither takes, waits for nor gives the GUI lock: with *)
(* the timer running a firing is enabled whoever holds the lock, and a    *)
(* firing changes neither the lock nor any task's program position.       *)
C6_TickIgnoresLock ==
    /\ []((timer = "running" /\ fires < MaxTicks) => ENABLED lv_tick_task)
    /\ [][fires' # fires =>
             /\ semCount' = semCount
             /\ holds' = holds
             /\ pc' = pc
             /\ mpc' = mpc
         ]_vars

(* The clock has advanced while some task is holding the lock.            *)
C6_Witness == Holders # {} /\ clock > clockAtTake

(* C7: once the display driver is registered, a monochrome build has no   *)
(* second buffer and has the rounder and set_px callbacks, a colour build *)
(* has two distinct buffers and neither callback; both have the flush     *)
(* callback, and the registered display carries that driver and buffer.   *)
C7_DisplayClassLayout ==
    Done("disp_drv_register") =>
        /\ disp_drv.flush_cb = "disp_driver_flush"
        /\ disp_drv.buffer = "disp_buf"
        /\ disp_buf.buf1 = "buf1"
        /\ cfg.monochrome =>
              /\ disp_buf.buf2 = "NULL"
              /\ disp_drv.rounder_cb = "disp_driver_rounder"
              /\ disp_drv.set_px_cb = "disp_driver_set_px"
        /\ ~cfg.monochrome =>
              /\ disp_buf.buf2 \notin {"NULL", disp_buf.buf1}
              /\ disp_drv.rounder_cb = "NULL"
              /\ disp_drv.set_px_cb = "NULL"
        /\ disp.registered => (disp.drv = disp_drv /\ disp.buf = disp_buf)

(* A monochrome build whose display has been registered.                  *)
C7_Witness ==
    /\ cfg.monochrome
    /\ Done("disp_drv_register")
    /\ disp.registered
    /\ disp.buf.buf2 = "NULL"

(* C8: the input read callback is invoked only inside lv_task_handler     *)
(* while guiTask, and no other task, holds the GUI lock, and the          *)
(* invocation neither takes nor gives the lock.                           *)
C8_ReadCbUnderLock ==
    [][readToggle' # readToggle =>
          /\ pc = "handler"
          /\ Holders = {Gui}
          /\ semCount = 0
          /\ holds' = holds
          /\ semCount' = semCount
      ]_vars

(* The read callback has just run inside the work-processing call.        *)
C8_Witness ==
    /\ readToggle
    /\ indev = "touch_driver_read"
    /\ pc = "give"
    /\ holds[Gui]

(* C9: each loop iteration sleeps, takes the lock, calls lv_task_handler  *)
(* exactly once and gives: guiTask never sleeps holding the lock, calls   *)
(* lv_task_handler only holding it, and acquires only after having slept  *)
(* since its previous give.                                               *)
C9_IterationShape ==
    /\ [](pc \in {"delay", "take"} => ~holds[Gui])
    /\ [](pc \in {"handler", "give"} => holds[Gui])
    /\ [](pc = "handler" => handlerCalls = 0)
    /\ [](pc = "give" => handlerCalls = 1)
    /\ [][(~holds[Gui] /\ holds'[Gui]) =>
             (slept /\ pc = "take" /\ pc' = "handler")]_vars
    /\ [][handlerCalls' > handlerCalls =>
             (holds[Gui] /\ holds'[Gui] /\ pc' = "give")]_vars
    /\ [][(holds[Gui] /\ ~holds'[Gui]) =>
             (handlerCalls = 1 /\ ~slept' /\ pc' = "delay")]_vars
    /\ [][(slept' /\ ~slept) => (pc = "delay" /\ ~holds[Gui])]_vars

(* guiTask is in its work-processing call for at least the second time.   *)
C9_Witness ==
    /\ pc = "give"
    /\ handlerCalls = 1
    /\ slept
    /\ clockAtTake > 0
    /\ \E e \in mutLog : e.op = "lv_task_handler" /\ e.locked

(* C10 as claimed: with every other holder giving the lock after a        *)
(* bounded unit of work, each time guiTask waits for the (created) lock   *)
(* it eventually acquires it.                                             *)
C10_WaitLeadsToAcquire ==
    (pc = "take" /\ xGuiSemaphore = "mutex") ~> holds[Gui]

(* C10 amended: guiTask never leaves the loop except by stopping in a     *)
(* take on a NULL handle; and if the lock is not taken from under the     *)
(* waiting guiTask infinitely often (strong fairness of its take), each   *)
(* wait ends in an acquisition or in that stop, and with a created lock   *)
(* lv_task_handler is called again and again.                             *)
C10_FairAcquire ==
    /\ [][(pc \in LoopPcs) => (pc' \in LoopPcs \/ pc' = "abort")]_vars
    /\ [](pc = "abort" /\ Done("create_app") => xGuiSemaphore = "NULL")
    /\ SF_vars(GuiTake) =>
          ((pc = "take") ~> (holds[Gui] \/ pc = "abort"))
    /\ SF_vars(GuiTake) =>
          ((pc \in LoopPcs /\ xGuiSemaphore = "mutex") ~> (pc = "give"))

(* guiTask waits for the lock, after an earlier iteration, while a        *)
(* mutator holds it.                                                      *)
C10_Witness ==
    /\ pc = "take"
    /\ \E m \in Mutators : holds[m]
    /\ \E e \in mutLog : e.op = "lv_task_handler"

====
